---- MODULE Spec2Model ----
(***************************************************************************)
(* A model of the ML corrective deformer repository.                       *)
(*                                                                         *)
(*   - the inference gate: MLCorrectiveDeformer.deform and its helpers     *)
(*     (phase1_python_prototype/_archive/ml_corrective_deformer.py);       *)
(*   - the trainer: Trainer.train, save_checkpoint and export_for_maya     *)
(*     (ml_training/train.py) over the model kinds of ml_training/model.py;*)
(*   - the data side: DataCollector (utils/data_collector.py), the dataset *)
(*     loader CorrectiveDeformerDataset (ml_training/train.py) and the     *)
(*     model factory create_model (ml_training/model.py);                  *)
(*   - the networks of ml_training/model.py, the data-collection window    *)
(*     of utils/data_collector.py and the run train_corrective_deformer    *)
(*     (ml_training/train.py).                                             *)
(*                                                                         *)
(* Numbers.  Vertex coordinates are fixed-point integers, 40 ticks to one  *)
(* scene unit, and every mesh the host hands in has coordinates that are   *)
(* multiples of 40, so the factors 0.1 and 0.05 of the procedural          *)
(* correction and the correction weights are exact.  The correction weight *)
(* is held in halves (weight 0.5 is 1, weight 2.0 is 4).  Pose angles are  *)
(* the degrees at which np.sin(np.radians(a)) is an exact integer.         *)
(* Losses are non-negative integers, and Inf stands for float('inf').      *)
(***************************************************************************)
EXTENDS Integers, Sequences, FiniteSets, TLC

VARIABLES gate, trainer, disk, scene, collector, files, pipeline, net, ui

vars == <<gate, trainer, disk, scene, collector, files, pipeline, net, ui>>

\* the variables of the data side: the host scene, the DataCollector, the
\* dataset files and the training pipeline that loads them; a network
\* constructed on its own, and the globals of the data-collection window
dataVars == <<scene, collector, files, pipeline, net, ui>>

-----------------------------------------------------------------------------
(* Bounds of the model *)

\* vertices of the deformed mesh
NumVertices == 3

\* epochs of one Trainer.train call, and of all the calls on one Trainer
MaxEpochs == 2
MaxHistory == 3

\* epochs of the long runs that reach the periodic checkpoints
LongEpochs == 21

-----------------------------------------------------------------------------
(* General helpers *)

RangeOf(s) == {s[i] : i \in 1..Len(s)}

Count(s, x) == Cardinality({i \in 1..Len(s) : s[i] = x})

\* the strictly increasing sequence of the members of a set of integers
RECURSIVE SortedSeq(_)
SortedSeq(S) ==
    IF S = {} THEN <<>>
    ELSE LET m == CHOOSE x \in S : \A y \in S : x <= y
         IN <<m>> \o SortedSeq(S \ {m})

Max(a, b) == IF a >= b THEN a ELSE b

-----------------------------------------------------------------------------
(* The inference gate: MLCorrectiveDeformer *)

\* the deformer nodes of the scene; the evaluations modelled so far run on
\* the nodes of ActiveDeformers
Deformers == {"d1", "d2"}
ActiveDeformers == {"d1"}

\* vertex indices of the deformed mesh, as MItGeometry.index() reports them
Vertices == 0..(NumVertices - 1)

\* vertex positions the host may hand in (x, y, z in ticks)
Points == {<<0, -40, 0>>, <<40, 40, 0>>}
Meshes == [Vertices -> Points]

\* the members a geometry iterator visits: any subset of the mesh's vertices
\* (the deformer set), in increasing index order
MemberLists == {SortedSeq(S) : S \in SUBSET Vertices}

\* values of the node attributes: poseAngle in [-180, 180] degrees,
\* correctionWeight in [0, 2] (in halves), enableML
PoseAngles == {-90, 0, 90}
WeightHalves == {0, 1, 4}
DataBlocks == [poseAngle : PoseAngles, correctionWeight : WeightHalves,
               enableML : BOOLEAN]

\* np.sin(np.radians(pose_angle)) at the angles of PoseAngles
SinDeg(a) == CASE a = -90 -> -1
               [] a = 0 -> 0
               [] a = 90 -> 1

\* _compute_simple_correction, the body of its loop for one point:
\*   y_factor = max(0, point.y); angle_factor = sin(radians(pose_angle))
\*   [y_factor * angle_factor * 0.1, 0.0, y_factor * angle_factor * 0.05]
SimpleCorrection(point, pose_angle) ==
    LET y_factor == Max(0, point[2])
        angle_factor == SinDeg(pose_angle)
    IN <<(y_factor * angle_factor) \div 10, 0, (y_factor * angle_factor) \div 20>>

\* point.x += correction[0] * correction_weight, and so for y and z
ApplyWeighted(point, correction, correction_weight) ==
    <<point[1] + (correction[1] * correction_weight) \div 2,
      point[2] + (correction[2] * correction_weight) \div 2,
      point[3] + (correction[3] * correction_weight) \div 2>>

\* `if not enable_ml: return'
GateDisabledNever(enable_ml) == FALSE

GateDisabled(enable_ml) == ~enable_ml

\* the steps of deform that lie inside its try block, whose
\* `except Exception' handler prints and returns
CaughtInDeformLate(step) == step \in {"compute", "apply"}

CaughtInDeform(step) == step \in {"inputs", "compute", "apply"}

\* a node outside an evaluation: the state MLCorrectiveDeformer.__init__
\* leaves (model_loaded False), no geometry at hand
IdleGate(loaded) ==
    [pc |-> "idle", model_loaded |-> loaded,
     dataBlock |-> [poseAngle |-> 0, correctionWeight |-> 2, enableML |-> TRUE],
     pose_angle |-> 0, correction_weight |-> 0, enable_ml |-> FALSE,
     pre |-> [v \in Vertices |-> <<0, 0, 0>>],
     pos |-> [v \in Vertices |-> <<0, 0, 0>>],
     members |-> <<>>, cur |-> 1, corrections |-> <<>>, written |-> <<>>,
     faulted |-> FALSE]

GateInit == gate = [d \in Deformers |-> IdleGate(FALSE)]

\* an exception (a subclass of Exception, as the Maya API and numpy raise)
\* raised inside deform at `step': caught by the handler of the try block
\* when the step lies inside it, propagated to the host otherwise
Raised(g, step) ==
    [g EXCEPT !.faulted = TRUE,
              !.pc = IF CaughtInDeform(step) THEN "returned" ELSE "raised"]

\* load_ml_model: the placeholder sets model_loaded, its handler clears it
LoadModel(d) ==
    /\ gate[d].pc = "idle"
    /\ \E ok \in BOOLEAN : gate' = [gate EXCEPT ![d].model_loaded = ok]
    /\ UNCHANGED <<trainer, disk>>
    /\ UNCHANGED dataVars

\* the host starts an evaluation: it calls deform with a data block and a
\* geometry iterator over the members of the deformer set
BeginDeformWith(d, blocks, meshes, lists) ==
    /\ gate[d].pc = "idle"
    /\ \E db \in blocks, mesh \in meshes, ms \in lists :
         gate' = [gate EXCEPT ![d] =
                    [IdleGate(gate[d].model_loaded) EXCEPT
                        !.pc = "inputs", !.dataBlock = db,
                        !.pre = mesh, !.pos = mesh, !.members = ms]]
    /\ UNCHANGED <<trainer, disk>>
    /\ UNCHANGED dataVars

BeginDeform(d) == BeginDeformWith(d, DataBlocks, Meshes, MemberLists)

\* the evaluations of two nodes that run at the same time: each node has its
\* own data block and its own geometry, drawn from a few of the inputs above
ConcurrentBlocks ==
    {[poseAngle |-> 90, correctionWeight |-> 2, enableML |-> TRUE],
     [poseAngle |-> -90, correctionWeight |-> 4, enableML |-> TRUE],
     [poseAngle |-> 90, correctionWeight |-> 1, enableML |-> FALSE]}
ConcurrentMeshes ==
    {[v \in Vertices |-> <<40, 40, 0>>],
     [v \in Vertices |-> IF v = 0 THEN <<0, -40, 0>> ELSE <<40, 40, 0>>]}
ConcurrentLists == {SortedSeq(Vertices), <<0>>}

BeginConcurrent(d) ==
    BeginDeformWith(d, ConcurrentBlocks, ConcurrentMeshes, ConcurrentLists)

\* deform, lines 49-59: read the three input attributes, leave when disabled,
\* else enter _compute_simple_correction (geoIter.reset())
ReadInputs(d) ==
    /\ gate[d].pc = "inputs"
    /\ LET g == gate[d] IN
       \/ gate' = [gate EXCEPT ![d] = Raised(g, "inputs")]
       \/ gate' = [gate EXCEPT ![d] =
                     [g EXCEPT !.pose_angle = g.dataBlock.poseAngle,
                               !.correction_weight = g.dataBlock.correctionWeight,
                               !.enable_ml = g.dataBlock.enableML,
                               !.cur = 1,
                               !.pc = IF GateDisabled(g.dataBlock.enableML)
                                      THEN "returned" ELSE "compute"]]
    /\ UNCHANGED <<trainer, disk>>
    /\ UNCHANGED dataVars

\* _compute_simple_correction: one turn of its loop, or its return followed
\* by the geoIter.reset() of deform
ComputeStep(d) ==
    /\ gate[d].pc = "compute"
    /\ LET g == gate[d] IN
       IF g.cur > Len(g.members)
       THEN gate' = [gate EXCEPT ![d] = [g EXCEPT !.pc = "apply", !.cur = 1]]
       ELSE \/ gate' = [gate EXCEPT ![d] = Raised(g, "compute")]
            \/ gate' = [gate EXCEPT ![d] =
                          [g EXCEPT !.corrections =
                                       Append(@, SimpleCorrection(
                                                    g.pos[g.members[g.cur]],
                                                    g.pose_angle)),
                                    !.cur = @ + 1]]
    /\ UNCHANGED <<trainer, disk>>
    /\ UNCHANGED dataVars

\* the list `corrections' the loop of deform on node d reads: the local
\* variable of that call (line 63), one list per evaluation
CorrectionsOfFirstNode(d) == gate["d1"].corrections

Corrections(d) == gate[d].corrections

\* deform, lines 67-80: one turn of the loop that applies the corrections
ApplyStep(d) ==
    /\ gate[d].pc = "apply"
    /\ LET g == gate[d] IN
       IF g.cur > Len(g.members)
       THEN gate' = [gate EXCEPT ![d] = [g EXCEPT !.pc = "returned"]]
       ELSE LET vertex_index == g.members[g.cur] IN
            IF vertex_index < Len(Corrections(d))
            THEN \/ gate' = [gate EXCEPT ![d] = Raised(g, "apply")]
                 \/ gate' = [gate EXCEPT ![d] =
                               [g EXCEPT !.pos[vertex_index] =
                                            ApplyWeighted(
                                               g.pos[vertex_index],
                                               Corrections(d)[vertex_index + 1],
                                               g.correction_weight),
                                         !.written = Append(@, vertex_index),
                                         !.cur = @ + 1]]
            ELSE gate' = [gate EXCEPT ![d] = [g EXCEPT !.cur = @ + 1]]
    /\ UNCHANGED <<trainer, disk>>
    /\ UNCHANGED dataVars

\* deform has returned and the host goes on with the result
EndEvaluation(d) ==
    /\ gate[d].pc = "returned"
    /\ gate' = [gate EXCEPT ![d] = IdleGate(gate[d].model_loaded)]
    /\ UNCHANGED <<trainer, disk>>
    /\ UNCHANGED dataVars

-----------------------------------------------------------------------------
(* The trainer *)

\* float('inf'), above every loss value of the model
Inf == 99

\* `if (epoch + 1) % 10 == 0'
CheckpointPeriod == 10

\* the architecture kinds create_model builds
ModelKinds == {"standard", "compact", "residual"}

\* the attributes the __init__ of each model class sets on the instance
ModelAttributes(kind) ==
    CASE kind = "standard" -> {"num_joints", "num_vertices", "output_size"}
      [] kind = "compact" -> {"num_joints", "pca_components"}
      [] kind = "residual" -> {"num_vertices", "output_size"}

\* mean losses an epoch can report (MSELoss is never negative; Inf when the
\* sum overflows)
TrainLossValues == {1, 2}
ValLossValues == {1, 2, Inf}

\* Trainer.__init__: empty histories, best_val_loss = float('inf')
NewTrainer(kind) ==
    [pc |-> "ready", kind |-> kind, weights |-> 0,
     train_losses |-> <<>>, val_losses |-> <<>>, best_val_loss |-> Inf,
     scheduler_steps |-> 0,
     num_epochs |-> 0, epoch |-> 0, train_loss |-> 0, val_loss |-> 0,
     raised_in |-> "",
     \* history of the calls, kept for the properties
     len_at_call |-> 0, best_saved_at |-> {},
     periodic_written |-> {}, export_calls |-> 0, attempted |-> {},
     exported |-> {}]

NoTrainer == [NewTrainer("standard") EXCEPT !.pc = "none"]

TrainerInit == trainer = NoTrainer

\* save_dir before the first run: no checkpoint, no exported artifact
DiskInit ==
    disk = [best |-> {}, periodic |-> {}, torchscript |-> {}, onnx |-> {},
            metadata |-> {}]

\* `for epoch in range(num_epochs)': the next step after the loop variable
\* has taken the value `epoch'
LoopHead(epoch, num_epochs) ==
    IF epoch < num_epochs THEN "train_epoch" ELSE "export"

\* self.train_losses.append(train_loss); self.val_losses.append(val_loss)
RecordLossOverwrite(history, loss) == <<loss>>

RecordLoss(history, loss) == Append(history, loss)

\* `if val_loss < self.best_val_loss'
IsNewBestOrEqual(val_loss, best_val_loss) == val_loss <= best_val_loss

IsNewBest(val_loss, best_val_loss) == val_loss < best_val_loss

\* `if (epoch + 1) % 10 == 0'
IsPeriodicEpochOffByOne(epoch) == epoch % CheckpointPeriod = 0

IsPeriodicEpoch(epoch) == (epoch + 1) % CheckpointPeriod = 0

\* save_checkpoint: the dictionary torch.save writes
CheckpointNumbered(t, epoch, val_loss) ==
    [epoch |-> epoch + 1, model_state_dict |-> t.weights, val_loss |-> val_loss,
     train_losses |-> t.train_losses, val_losses |-> t.val_losses]

Checkpoint(t, epoch, val_loss) ==
    [epoch |-> epoch, model_state_dict |-> t.weights, val_loss |-> val_loss,
     train_losses |-> t.train_losses, val_losses |-> t.val_losses]

\* the weights export_for_maya serialises: torch.jit.trace(self.model, ...)
\* and torch.onnx.export(self.model, ...) take the in-memory model
ExportedWeightsOfBest(t, d) ==
    IF d.best = {} THEN t.weights
    ELSE (CHOOSE c \in d.best : TRUE).model_state_dict

ExportedWeights(t, d) == t.weights

\* a Trainer is created around a model of one of the kinds
CreateTrainer ==
    /\ trainer.pc = "none"
    /\ \E kind \in ModelKinds : trainer' = NewTrainer(kind)
    /\ UNCHANGED <<gate, disk>>
    /\ UNCHANGED dataVars

\* Trainer.train is called with one of the epoch counts of Ns on a new
\* Trainer or on one whose earlier call has returned
TrainCall(Ns, maxHistory) ==
    /\ trainer.pc \in {"ready", "done"}
    /\ \E n \in Ns :
         /\ Len(trainer.train_losses) + n <= maxHistory
         /\ trainer' = [trainer EXCEPT
                          !.num_epochs = n, !.epoch = 0,
                          !.pc = LoopHead(0, n),
                          !.len_at_call = Len(trainer.train_losses),
                          !.periodic_written = {}, !.export_calls = 0,
                          !.attempted = {}, !.exported = {}]
    /\ UNCHANGED <<gate, disk>>
    /\ UNCHANGED dataVars

\* train_loss = self.train_epoch(train_loader); self.train_losses.append(..)
\* An exception in a batch (a shape mismatch, an exhausted device, an empty
\* loader's division by zero) ends train() with the weights as the batches
\* run so far left them.
TrainEpoch(values) ==
    /\ trainer.pc = "train_epoch"
    /\ \/ \E w \in {trainer.weights, trainer.weights + 1} :
            trainer' = [trainer EXCEPT !.pc = "raised",
                                       !.raised_in = "train_epoch",
                                       !.weights = w]
       \/ \E loss \in values :
            trainer' = [trainer EXCEPT
                          !.weights = @ + 1, !.train_loss = loss,
                          !.train_losses = RecordLoss(@, loss),
                          !.pc = "validate"]
    /\ UNCHANGED <<gate, disk>>
    /\ UNCHANGED dataVars

\* the parameters and the optimizer state after the batches of validate:
\* its loop (lines 127-135) runs the forward pass and the criterion under
\* torch.no_grad() and calls neither loss.backward() nor optimizer.step()
ValidatedWeightsStepped(weights) == weights + 1

ValidatedWeights(weights) == weights

\* val_loss = self.validate(val_loader); self.val_losses.append(val_loss)
Validate(values) ==
    /\ trainer.pc = "validate"
    /\ \/ trainer' = [trainer EXCEPT !.pc = "raised", !.raised_in = "validate",
                                    !.weights = ValidatedWeights(@)]
       \/ \E loss \in values :
            trainer' = [trainer EXCEPT
                          !.weights = ValidatedWeights(@),
                          !.val_loss = loss,
                          !.val_losses = RecordLoss(@, loss),
                          !.pc = "scheduler"]
    /\ UNCHANGED <<gate, disk>>
    /\ UNCHANGED dataVars

\* self.scheduler.step(val_loss)
SchedulerStep ==
    /\ trainer.pc = "scheduler"
    /\ trainer' = [trainer EXCEPT !.scheduler_steps = @ + 1, !.pc = "best"]
    /\ UNCHANGED <<gate, disk>>
    /\ UNCHANGED dataVars

\* lines 171-174: the best-model checkpoint (torch.save is taken to succeed)
BestCheckpoint ==
    /\ trainer.pc = "best"
    /\ IF IsNewBest(trainer.val_loss, trainer.best_val_loss)
       THEN /\ trainer' = [trainer EXCEPT
                             !.best_val_loss = trainer.val_loss,
                             !.best_saved_at = @ \cup {Len(trainer.val_losses)},
                             !.pc = "periodic"]
            /\ disk' = [disk EXCEPT !.best =
                          {Checkpoint([trainer EXCEPT
                                          !.best_val_loss = trainer.val_loss],
                                      trainer.epoch, trainer.val_loss)}]
       ELSE /\ trainer' = [trainer EXCEPT !.pc = "periodic"]
            /\ UNCHANGED disk
    /\ UNCHANGED gate
    /\ UNCHANGED dataVars

\* lines 177-178: the periodic checkpoint, and the end of the loop body
PeriodicCheckpoint ==
    /\ trainer.pc = "periodic"
    /\ LET k == trainer.epoch + 1 IN
       IF IsPeriodicEpoch(trainer.epoch)
       THEN /\ trainer' = [trainer EXCEPT
                             !.periodic_written = @ \cup {k},
                             !.epoch = k,
                             !.pc = LoopHead(k, trainer.num_epochs)]
            /\ disk' = [disk EXCEPT !.periodic =
                          {c \in @ : c.k # k} \cup
                          {[k |-> k,
                            checkpoint |-> Checkpoint(trainer, trainer.epoch,
                                                      trainer.val_loss)]}]
       ELSE /\ trainer' = [trainer EXCEPT
                             !.epoch = k,
                             !.pc = LoopHead(k, trainer.num_epochs)]
            /\ UNCHANGED disk
    /\ UNCHANGED gate
    /\ UNCHANGED dataVars

\* export_for_maya, lines 203-207: self.model.eval() and the example input
\* built from self.model.num_joints
ExportBegin ==
    /\ trainer.pc = "export"
    /\ IF "num_joints" \in ModelAttributes(trainer.kind)
       THEN trainer' = [trainer EXCEPT !.export_calls = @ + 1,
                                       !.pc = "export_torchscript"]
       ELSE trainer' = [trainer EXCEPT !.export_calls = @ + 1,
                                       !.pc = "raised", !.raised_in = "export"]
    /\ UNCHANGED <<gate, disk>>
    /\ UNCHANGED dataVars

\* lines 210-216: the TorchScript export inside its own try block
ExportTorchScript ==
    /\ trainer.pc = "export_torchscript"
    /\ \/ /\ trainer' = [trainer EXCEPT
                           !.attempted = @ \cup {"torchscript"},
                           !.exported = @ \cup
                              {[format |-> "torchscript",
                                weights |-> ExportedWeights(trainer, disk)]},
                           !.pc = "export_onnx"]
          /\ disk' = [disk EXCEPT !.torchscript =
                         {ExportedWeights(trainer, disk)}]
       \/ /\ trainer' = [trainer EXCEPT
                           !.attempted = @ \cup {"torchscript"},
                           !.pc = "export_onnx"]
          /\ UNCHANGED disk
    /\ UNCHANGED gate
    /\ UNCHANGED dataVars

\* lines 219-237: the ONNX export inside its own try block
ExportOnnx ==
    /\ trainer.pc = "export_onnx"
    /\ \/ /\ trainer' = [trainer EXCEPT
                           !.attempted = @ \cup {"onnx"},
                           !.exported = @ \cup
                              {[format |-> "onnx",
                                weights |-> ExportedWeights(trainer, disk)]},
                           !.pc = "export_metadata"]
          /\ disk' = [disk EXCEPT !.onnx = {ExportedWeights(trainer, disk)}]
       \/ /\ trainer' = [trainer EXCEPT
                           !.attempted = @ \cup {"onnx"},
                           !.pc = "export_metadata"]
          /\ UNCHANGED disk
    /\ UNCHANGED gate
    /\ UNCHANGED dataVars

\* lines 240-249: the metadata sidecar, built from self.model.num_vertices
\* and self.best_val_loss
ExportMetadata ==
    /\ trainer.pc = "export_metadata"
    /\ IF "num_vertices" \in ModelAttributes(trainer.kind)
       THEN /\ trainer' = [trainer EXCEPT !.pc = "done"]
            /\ disk' = [disk EXCEPT !.metadata =
                          {[num_joints |-> "num_joints",
                            num_vertices |-> "num_vertices",
                            best_val_loss |-> trainer.best_val_loss]}]
       ELSE /\ trainer' = [trainer EXCEPT !.pc = "raised",
                                          !.raised_in = "export"]
            /\ UNCHANGED disk
    /\ UNCHANGED gate
    /\ UNCHANGED dataVars

-----------------------------------------------------------------------------
(* The data side: DataCollector, CorrectiveDeformerDataset, create_model  *)
(*                                                                         *)
(* Numbers.  Channel values of the scene are whole degrees.  The entries   *)
(* of the arrays a sample, a dataset file and a loaded dataset hold are    *)
(* fixed-point integers, Unit ticks to 1.0: a joint angle of d degrees is  *)
(* the entry d * Unit, its normalised value d / 180 is the entry 2 * d.    *)
(* A float32 holds fewer digits than the float64 it is cast from: the      *)
(* float32 values are the multiples of Float32Step, so that 0.25 and 0.5   *)
(* are exact and 0.1 and 1/3 are not.  The timestamp of a sample is left   *)
(* out.                                                                    *)

Unit == 360
Float32Step == 45

\* the rig of the collector: _get_joint_angles reads rotateX, rotateY and
\* rotateZ of every joint, in this order
Joints == <<"joint1">>
Axes == <<"rotateX", "rotateY", "rotateZ">>
Channels == {<<Joints[j], Axes[a]>> : j \in 1..Len(Joints), a \in 1..Len(Axes)}

\* the meshes of the scene: the base mesh as the collector was created on
\* it, the base mesh after the artist added a vertex to it, and the
\* sculpted duplicate of the first
BaseMesh == << <<0, 0, 0>>, <<360, 0, 0>> >>
EditedMesh == << <<0, 0, 0>>, <<360, 0, 0>>, <<180, 0, 0>> >>
CorrectiveMesh == << <<0, 36, 0>>, <<360, 90, 0>> >>

\* the scene the host holds when the collector is created
InitScene ==
    [attr |-> [c \in Channels |->
                 IF c[2] = "rotateX" THEN 30
                 ELSE IF c[2] = "rotateY" THEN -45 ELSE 0],
     meshes |-> [body |-> BaseMesh, body_corrective |-> CorrectiveMesh]]

\* what the animator poses by hand, and the ranges and step counts the
\* auto-capture is called with; steps - 1 divides end - start in all of
\* them, so that the values of np.linspace are whole degrees
HostChannels == {<<"joint1", "rotateZ">>}
HostValues == {0, 240}
RangeEnds == {0, 120}
MaxSteps == 3
StepCounts == (-1)..MaxSteps

\* samples a store holds when a capture is started by hand
MaxStore == 2

\* the call of capture_pose_range in progress or the last one ended:
\* its arguments, original_value, angles and loop index, and what the scene
\* and the store held when it was called
NoCall ==
    [op |-> "none", channel |-> <<"", "">>, start |-> 0, end |-> 0,
     steps |-> 0, original_value |-> 0, angles |-> <<>>, i |-> 0,
     attr |-> InitScene.attr, samples |-> <<>>,
     failed_at |-> -1, failed_in |-> "", completed |-> FALSE]

\* DataCollector.__init__(base_mesh, joints): no corrective mesh, an empty
\* store, and the vertex count of the base mesh at that moment
NewCollector ==
    [pc |-> "idle", base_mesh |-> "body", joints |-> Joints,
     corrective_mesh |-> "None", samples |-> <<>>,
     num_vertices |-> Len(InitScene.meshes["body"]),
     call |-> NoCall]

\* a dataset file: the arrays np.savez_compressed wrote under their keys,
\* and the keys whose array is an object array (stored pickled)
NoFile ==
    [exists |-> FALSE, keys |-> {}, object_arrays |-> {},
     joint_angles |-> <<>>, vertex_deltas |-> <<>>,
     joint_names |-> <<>>, num_vertices |-> 0]

NoMetadata ==
    [exists |-> FALSE, num_samples |-> 0, num_joints |-> 0,
     joint_names |-> <<>>, num_vertices |-> 0, base_mesh |-> ""]

DatasetKeys == {"joint_angles", "vertex_deltas", "joint_names", "num_vertices"}

\* files that save_dataset did not write: one cut off after its first
\* array, one without the pose array, and one whose arrays hold different
\* numbers of samples
ForeignRow == <<60, -90, 0>>
ForeignDeltas == << <<0, 0, 0>>, <<0, 90, 0>> >>
ForeignFiles ==
    {[NoFile EXCEPT !.exists = TRUE, !.keys = {"joint_angles"},
                    !.joint_angles = <<ForeignRow>>],
     [NoFile EXCEPT !.exists = TRUE, !.keys = DatasetKeys \ {"joint_angles"},
                    !.vertex_deltas = <<ForeignDeltas>>,
                    !.joint_names = Joints, !.num_vertices = 2],
     [NoFile EXCEPT !.exists = TRUE, !.keys = DatasetKeys,
                    !.joint_angles = <<ForeignRow, ForeignRow>>,
                    !.vertex_deltas = <<ForeignDeltas>>,
                    !.joint_names = Joints, !.num_vertices = 2]}

\* the training pipeline train_corrective_deformer: nothing loaded yet
NoDataset ==
    [joint_angles |-> <<>>, vertex_deltas |-> <<>>,
     num_samples |-> 0, num_joints |-> 0, num_vertices |-> 0]

NoPipeline ==
    [pc |-> "none", dataset |-> NoDataset, raised |-> "none",
     model_type |-> "", model |-> "None",
     split |-> FALSE, val_split |-> 0, train_size |-> 0, val_size |-> 0]

DataInit ==
    /\ scene = InitScene
    /\ collector = NewCollector
    /\ files = [dataset |-> NoFile, metadata |-> NoMetadata]
    /\ pipeline = NoPipeline

\* lines 50-56: angles.extend([rx, ry, rz]) for every joint
RECURSIVE GetJointAngles(_, _)
GetJointAngles(attr, joints) ==
    IF joints = <<>> THEN <<>>
    ELSE <<attr[<<Head(joints), "rotateX">>] * Unit,
           attr[<<Head(joints), "rotateY">>] * Unit,
           attr[<<Head(joints), "rotateZ">>] * Unit>>
         \o GetJointAngles(attr, Tail(joints))

\* lines 78-89: corrective_positions - base_positions, row by row; numpy
\* raises ValueError for arrays of different row counts (the meshes here
\* have two vertices or more, so that no array is broadcast)
DeltasRaise(base_positions, corrective_positions) ==
    Len(base_positions) # Len(corrective_positions)

CalculateVertexDeltas(base_positions, corrective_positions) ==
    [v \in 1..Len(base_positions) |->
        <<corrective_positions[v][1] - base_positions[v][1],
          corrective_positions[v][2] - base_positions[v][2],
          corrective_positions[v][3] - base_positions[v][3]>>]

\* line 114: np.zeros_like(base_positions)
ZerosLike(positions) == [v \in 1..Len(positions) |-> <<0, 0, 0>>]

\* line 108: target_mesh = corrective_mesh or self.corrective_mesh
TargetMesh(c, corrective_mesh) ==
    IF corrective_mesh # "None" THEN corrective_mesh ELSE c.corrective_mesh

\* line 109: if target_mesh and cmds.objExists(target_mesh)
TargetExists(sc, c, corrective_mesh) ==
    /\ TargetMesh(c, corrective_mesh) # "None"
    /\ TargetMesh(c, corrective_mesh) \in DOMAIN sc.meshes

\* lines 102-120 of capture_sample: whether the subtraction raises, and
\* the sample built from the scene otherwise
CaptureRaises(sc, c, corrective_mesh) ==
    /\ TargetExists(sc, c, corrective_mesh)
    /\ DeltasRaise(sc.meshes[c.base_mesh],
                   sc.meshes[TargetMesh(c, corrective_mesh)])

CapturedSample(sc, c, corrective_mesh) ==
    LET joint_angles == GetJointAngles(sc.attr, c.joints)
        base_positions == sc.meshes[c.base_mesh]
    IN [joint_angles |-> joint_angles,
        vertex_deltas |->
            IF TargetExists(sc, c, corrective_mesh)
            THEN CalculateVertexDeltas(base_positions,
                     sc.meshes[TargetMesh(c, corrective_mesh)])
            ELSE ZerosLike(base_positions)]

\* line 122: self.samples.append(sample)
AppendSampleFirst(samples, sample) == <<sample>> \o samples

AppendSample(samples, sample) == Append(samples, sample)

\* line 147: np.linspace(start, end, steps), endpoint included; no value
\* for steps = 0, ValueError for a negative steps
LinspaceRaises(steps) == steps < 0

LinspaceEndpointExcluded(start, end, steps) ==
    IF steps <= 0 THEN <<>>
    ELSE [i \in 1..steps |-> start + ((i - 1) * (end - start)) \div steps]

Linspace(start, end, steps) ==
    IF steps <= 0 THEN <<>>
    ELSE [i \in 1..steps |->
            IF steps = 1 THEN start
            ELSE start + ((i - 1) * (end - start)) \div (steps - 1)]

\* line 155: cmds.setAttr(f"{joint}.{axis}", original_value)
RestoredAttrZero(attr, channel, original_value) ==
    [attr EXCEPT ![channel] = 0]

RestoredAttr(attr, channel, original_value) ==
    [attr EXCEPT ![channel] = original_value]

\* line 211: self.samples = []
ClearedSamplesKeepLast(samples) ==
    IF samples = <<>> THEN <<>> ELSE <<samples[Len(samples)]>>

ClearedSamples(samples) == <<>>

\* lines 175-176: np.deg2rad(joint_angles) / np.pi, the angle over 180
NormalizeAnglesRadians(joint_angles) ==
    [k \in 1..Len(joint_angles) |-> (joint_angles[k] * 314) \div 18000]

NormalizeAngles(joint_angles) ==
    [k \in 1..Len(joint_angles) |-> joint_angles[k] \div 180]

\* lines 171-172: np.array over the samples' arrays gives a numeric array
\* when all have one shape
Homogeneous(samples) ==
    \A i, j \in 1..Len(samples) :
        /\ Len(samples[i].joint_angles) = Len(samples[j].joint_angles)
        /\ Len(samples[i].vertex_deltas) = Len(samples[j].vertex_deltas)

\* lines 171-186: the file save_dataset writes for the samples of c
SavedDataset(c) ==
    [exists |-> TRUE, keys |-> DatasetKeys,
     object_arrays |-> IF Homogeneous(c.samples) THEN {}
                       ELSE {"vertex_deltas"},
     joint_angles |-> [i \in 1..Len(c.samples) |->
                          NormalizeAngles(c.samples[i].joint_angles)],
     vertex_deltas |-> [i \in 1..Len(c.samples) |->
                          c.samples[i].vertex_deltas],
     joint_names |-> c.joints,
     num_vertices |-> c.num_vertices]

\* lines 194-205: the metadata sidecar of the dataset
SavedMetadata(c) ==
    [exists |-> TRUE, num_samples |-> Len(c.samples),
     num_joints |-> Len(c.joints), joint_names |-> c.joints,
     num_vertices |-> c.num_vertices, base_mesh |-> c.base_mesh]

\* torch.FloatTensor(array): every entry cast to float32, the nearest
\* multiple of Float32Step
Float32(x) ==
    LET a == IF x < 0 THEN -x ELSE x
        r == Float32Step * ((2 * a + Float32Step) \div (2 * Float32Step))
    IN IF x < 0 THEN -r ELSE r

FloatTensorAngles(array) ==
    [i \in 1..Len(array) |->
        [k \in 1..Len(array[i]) |-> Float32(array[i][k])]]

FloatTensorDeltas(array) ==
    [i \in 1..Len(array) |->
        [v \in 1..Len(array[i]) |->
            <<Float32(array[i][v][1]), Float32(array[i][v][2]),
              Float32(array[i][v][3])>>]]

\* train.py lines 35-42: the exception CorrectiveDeformerDataset raises on
\* a file, "none" when it raises nothing: np.load of a missing file,
\* data[key] of a missing key or of a pickled object array, shape[1] of an
\* array without a second dimension
LoadRaises(file) ==
    IF ~file.exists THEN "FileNotFoundError"
    ELSE IF "joint_angles" \notin file.keys THEN "KeyError"
    ELSE IF "joint_angles" \in file.object_arrays THEN "ValueError"
    ELSE IF "vertex_deltas" \notin file.keys THEN "KeyError"
    ELSE IF "vertex_deltas" \in file.object_arrays THEN "ValueError"
    ELSE IF file.joint_angles = <<>> \/ file.vertex_deltas = <<>>
         THEN "IndexError"
    ELSE "none"

\* train.py lines 35-42: the dataset built from a file that loads
LoadedDataset(file) ==
    [joint_angles |-> FloatTensorAngles(file.joint_angles),
     vertex_deltas |-> FloatTensorDeltas(file.vertex_deltas),
     num_samples |-> Len(file.joint_angles),
     num_joints |-> Len(file.joint_angles[1]),
     num_vertices |-> Len(file.vertex_deltas[1])]

\* model.py lines 235-266: the class create_model instantiates for a
\* model_type, and "None" with a ValueError for any other string
ModelTypes == ModelKinds \cup {"transformer", "Standard"}

create_model_default(model_type) ==
    IF model_type = "compact"
    THEN [raised |-> "none", model |-> "CompactCorrectiveNet"]
    ELSE IF model_type = "residual"
    THEN [raised |-> "none", model |-> "ResidualCorrectiveNet"]
    ELSE [raised |-> "none", model |-> "CorrectiveDeformerNet"]

create_model(model_type) ==
    IF model_type = "standard"
    THEN [raised |-> "none", model |-> "CorrectiveDeformerNet"]
    ELSE IF model_type = "compact"
    THEN [raised |-> "none", model |-> "CompactCorrectiveNet"]
    ELSE IF model_type = "residual"
    THEN [raised |-> "none", model |-> "ResidualCorrectiveNet"]
    ELSE [raised |-> "ValueError", model |-> "None"]

\* the animator poses a channel by hand between two calls of the collector
HostSetAttr ==
    /\ collector.pc = "idle"
    /\ pipeline.pc = "none"
    /\ \E c \in HostChannels, v \in HostValues :
         /\ scene.attr[c] # v
         /\ scene' = [scene EXCEPT !.attr[c] = v]
    /\ collector' = [collector EXCEPT !.call = NoCall]
    /\ UNCHANGED <<files, pipeline>>
    /\ UNCHANGED <<gate, trainer, disk, net, ui>>

\* the artist adds a vertex to the base mesh
HostEditMesh ==
    /\ collector.pc = "idle"
    /\ pipeline.pc = "none"
    /\ scene.meshes[collector.base_mesh] = BaseMesh
    /\ scene' = [scene EXCEPT !.meshes[collector.base_mesh] = EditedMesh]
    /\ UNCHANGED <<collector, files, pipeline>>
    /\ UNCHANGED <<gate, trainer, disk, net, ui>>

\* a file of another origin is put at the dataset path
HostWriteFile ==
    /\ collector.pc = "idle"
    /\ pipeline.pc = "none"
    /\ \E f \in ForeignFiles :
         /\ files.dataset # f
         /\ files' = [files EXCEPT !.dataset = f]
    /\ UNCHANGED <<scene, collector, pipeline>>
    /\ UNCHANGED <<gate, trainer, disk, net, ui>>

\* lines 91-127: capture_sample(corrective_mesh) called by hand; a raise of
\* the subtraction leaves the collector as it was
CaptureSample(targets) ==
    /\ collector.pc = "idle"
    /\ pipeline.pc = "none"
    /\ Len(collector.samples) < MaxStore
    /\ \E corrective_mesh \in targets :
         IF CaptureRaises(scene, collector, corrective_mesh)
         THEN collector' = [collector EXCEPT !.call = NoCall]
         ELSE collector' = [collector EXCEPT
                 !.samples = AppendSample(@,
                     CapturedSample(scene, collector, corrective_mesh)),
                 !.call = NoCall]
    /\ UNCHANGED <<scene, files, pipeline>>
    /\ UNCHANGED <<gate, trainer, disk, net, ui>>

\* lines 144-147: capture_pose_range reads original_value and builds the
\* angles; a negative steps raises in np.linspace
CapturePoseRange(joint, axis, start, end, steps) ==
    /\ collector.pc = "idle"
    /\ pipeline.pc = "none"
    /\ Len(collector.samples) < MaxStore
    /\ LET call == [NoCall EXCEPT
                      !.op = "capture_pose_range",
                      !.channel = <<joint, axis>>,
                      !.start = start, !.end = end, !.steps = steps,
                      !.original_value = scene.attr[<<joint, axis>>],
                      !.angles = Linspace(start, end, steps),
                      !.attr = scene.attr,
                      !.samples = collector.samples]
       IN IF LinspaceRaises(steps)
          THEN collector' = [collector EXCEPT
                  !.call = [call EXCEPT !.failed_at = 0,
                                        !.failed_in = "linspace"]]
          ELSE collector' = [collector EXCEPT !.pc = "range", !.call = call]
    /\ UNCHANGED <<scene, files, pipeline>>
    /\ UNCHANGED <<gate, trainer, disk, net, ui>>

\* lines 148-152: one turn of the loop: setAttr, refresh, capture_sample;
\* an exception of any of the three leaves the loop and the call
RangeStep ==
    /\ collector.pc = "range"
    /\ collector.call.i < Len(collector.call.angles)
    /\ LET call == collector.call
           posed == [scene EXCEPT !.attr[call.channel] = call.angles[call.i + 1]]
           Failed(step) == [collector EXCEPT
                              !.pc = "idle",
                              !.call.failed_at = call.i,
                              !.call.failed_in = step]
       IN \/ /\ scene' = scene
             /\ collector' = Failed("setAttr")
          \/ /\ scene' = posed
             /\ collector' = Failed("refresh")
          \/ /\ scene' = posed
             /\ collector' = Failed("capture_sample")
          \/ /\ ~CaptureRaises(posed, collector, "None")
             /\ scene' = posed
             /\ collector' = [collector EXCEPT
                   !.samples = AppendSample(@,
                       CapturedSample(posed, collector, "None")),
                   !.call.i = @ + 1]
    /\ UNCHANGED <<files, pipeline>>
    /\ UNCHANGED <<gate, trainer, disk, net, ui>>

\* line 155, after the loop: the channel is set to original_value
RangeRestore ==
    /\ collector.pc = "range"
    /\ collector.call.i = Len(collector.call.angles)
    /\ scene' = [scene EXCEPT !.attr =
                    RestoredAttr(@, collector.call.channel,
                                 collector.call.original_value)]
    /\ collector' = [collector EXCEPT !.pc = "idle",
                                      !.call.completed = TRUE]
    /\ UNCHANGED <<files, pipeline>>
    /\ UNCHANGED <<gate, trainer, disk, net, ui>>

\* lines 159-207: save_dataset returns early on an empty store; np.array
\* over samples of different shapes raises ValueError in a recent numpy and
\* gives an object array, which savez pickles, in an older one
SaveDataset ==
    /\ collector.pc = "idle"
    /\ pipeline.pc = "none"
    /\ IF collector.samples = <<>>
       THEN UNCHANGED files
       ELSE IF Homogeneous(collector.samples)
       THEN files' = [dataset |-> SavedDataset(collector),
                      metadata |-> SavedMetadata(collector)]
       ELSE \/ UNCHANGED files
            \/ files' = [dataset |-> SavedDataset(collector),
                         metadata |-> SavedMetadata(collector)]
    /\ collector' = [collector EXCEPT !.call = NoCall]
    /\ UNCHANGED <<scene, pipeline>>
    /\ UNCHANGED <<gate, trainer, disk, net, ui>>

\* lines 209-212: clear_samples
ClearSamples ==
    /\ collector.pc = "idle"
    /\ pipeline.pc = "none"
    /\ collector' = [collector EXCEPT
                        !.samples = ClearedSamples(@), !.call = NoCall]
    /\ UNCHANGED <<scene, files, pipeline>>
    /\ UNCHANGED <<gate, trainer, disk, net, ui>>

\* train.py line 280: dataset = CorrectiveDeformerDataset(data_file)
LoadDataset ==
    /\ collector.pc = "idle"
    /\ pipeline.pc = "none"
    /\ IF LoadRaises(files.dataset) = "none"
       THEN pipeline' = [pipeline EXCEPT
                           !.pc = "loaded",
                           !.dataset = LoadedDataset(files.dataset)]
       ELSE pipeline' = [pipeline EXCEPT
                           !.pc = "raised",
                           !.raised = LoadRaises(files.dataset)]
    /\ UNCHANGED <<scene, collector, files>>
    /\ UNCHANGED <<gate, trainer, disk, net, ui>>

\* train.py lines 294-298: model = create_model(model_type, ...)
CreateModel ==
    /\ pipeline.pc = "loaded"
    /\ \E model_type \in ModelTypes :
         pipeline' = [pipeline EXCEPT
                         !.pc = IF create_model(model_type).raised = "none"
                                THEN "model" ELSE "raised",
                         !.raised = create_model(model_type).raised,
                         !.model_type = model_type,
                         !.model = create_model(model_type).model]
    /\ UNCHANGED <<scene, collector, files>>
    /\ UNCHANGED <<gate, trainer, disk, net, ui>>

-----------------------------------------------------------------------------
(* The networks of ml_training/model.py, constructed and evaluated alone  *)
(*                                                                         *)
(* A tensor is known by its shape, a sequence of sizes; a network by the   *)
(* nn.Linear layers it creates, each a pair <<in_features, out_features>>. *)

\* the arguments a caller constructs a network with; the hidden lists
\* stand for lists such as [256, 512, 512, 256], with small sizes
JointCounts == {-1, 0, 2}
VertexCounts == {-1, 0, 1, 2}
HiddenLists == {<<>>, <<4>>, <<4, 8>>}
ResidualSizes == [hidden_size |-> 4, num_blocks |-> 2]

\* batch sizes of a forward pass
MaxBatch == 2

\* nn.Linear(in_features, out_features): a negative size raises
\* RuntimeError; with in_features = 0 the initialisation divides by the
\* fan-in in an older torch and is skipped in a recent one
LinearOutcomes(layer) ==
    IF layer[1] < 0 \/ layer[2] < 0 THEN {"RuntimeError"}
    ELSE IF layer[1] = 0 THEN {"none", "ZeroDivisionError"}
    ELSE {"none"}

\* lines 40-46 and 106-111: one nn.Linear per hidden size, each taking the
\* size before it as its input size
RECURSIVE HiddenChain(_, _)
HiddenChain(input_size, hidden_layers) ==
    IF hidden_layers = <<>> THEN <<>>
    ELSE <<<<input_size, Head(hidden_layers)>>>>
         \o HiddenChain(Head(hidden_layers), Tail(hidden_layers))

\* the input size of the layer behind the hidden ones
LastSize(input_size, hidden_layers) ==
    IF hidden_layers = <<>> THEN input_size
    ELSE hidden_layers[Len(hidden_layers)]

\* line 36 and line 159: self.output_size = num_vertices * 3
OutputSizeFlat(num_vertices) == num_vertices

OutputSize(num_vertices) == num_vertices * 3

\* the nn.Linear layers of a network in the order __init__ creates them;
\* num_outputs is num_vertices, and pca_components for the compact kind
Layers(kind, num_joints, num_outputs, hidden_layers) ==
    IF kind = "standard"
    THEN HiddenChain(num_joints, hidden_layers)
         \o <<<<LastSize(num_joints, hidden_layers), OutputSize(num_outputs)>>>>
    ELSE IF kind = "compact"
    THEN HiddenChain(num_joints, hidden_layers)
         \o <<<<LastSize(num_joints, hidden_layers), num_outputs>>>>
    ELSE <<<<num_joints, ResidualSizes.hidden_size>>>>
         \o [b \in 1..(2 * ResidualSizes.num_blocks) |->
               <<ResidualSizes.hidden_size, ResidualSizes.hidden_size>>]
         \o <<<<ResidualSizes.hidden_size, OutputSize(num_outputs)>>>>

\* the ways __init__ can end: "none" when every layer is created, and the
\* exception of a layer when the layers before it were created
ConstructOutcomes(layers) ==
    {e \in {"none", "RuntimeError", "ZeroDivisionError"} :
        \/ /\ e = "none"
           /\ \A i \in 1..Len(layers) : "none" \in LinearOutcomes(layers[i])
        \/ /\ e # "none"
           /\ \E i \in 1..Len(layers) :
                /\ e \in LinearOutcomes(layers[i])
                /\ \A j \in 1..(i - 1) : "none" \in LinearOutcomes(layers[j])}

\* no network constructed
NoNet ==
    [pc |-> "none", via |-> "", kind |-> "", model |-> "None",
     num_joints |-> 0, num_outputs |-> 0, hidden_layers |-> <<>>,
     layers |-> <<>>, raised |-> "none",
     input |-> <<>>, output |-> <<>>, forward_raised |-> "none"]

NetInit == net = NoNet

\* a network is constructed by its class or through create_model, which
\* passes the sizes on unchanged (model.py lines 247-259)
ConstructNet ==
    /\ net.pc = "none"
    /\ \E via \in {"class", "create_model"}, kind \in ModelKinds,
          num_joints \in JointCounts, num_outputs \in VertexCounts,
          hidden_layers \in HiddenLists :
         LET layers == Layers(kind, num_joints, num_outputs, hidden_layers)
         IN /\ kind = "residual" => hidden_layers = <<>>
            /\ \E e \in ConstructOutcomes(layers) :
                 net' = [NoNet EXCEPT
                           !.pc = IF e = "none" THEN "model" ELSE "raised",
                           !.via = via, !.kind = kind,
                           !.model = IF e = "none"
                                     THEN create_model(kind).model
                                     ELSE "None",
                           !.num_joints = num_joints,
                           !.num_outputs = num_outputs,
                           !.hidden_layers = hidden_layers,
                           !.layers = IF e = "none" THEN layers ELSE <<>>,
                           !.raised = e]
    /\ UNCHANGED <<gate, trainer, disk, scene, collector, files, pipeline, ui>>

\* a tensor of shape [batch, size] through the layers in turn: each layer
\* needs its in_features as the last size; <<>> stands for the RuntimeError
\* of a layer that gets another size
RECURSIVE Through(_, _)
Through(layers, shape) ==
    IF layers = <<>> \/ shape = <<>> THEN shape
    ELSE IF shape[2] # Head(layers)[1] THEN <<>>
    ELSE Through(Tail(layers), <<shape[1], Head(layers)[2]>>)

\* output.view(batch_size, self.num_vertices, 3): the sizes must hold as
\* many elements as the tensor has
View(shape, sizes) ==
    IF shape = <<>> THEN <<>>
    ELSE IF shape[1] * shape[2] = sizes[1] * sizes[2] * sizes[3]
    THEN sizes
    ELSE <<>>

\* forward of the three classes on an input of a shape; the blocks of the
\* residual kind keep the shape, so that x + residual adds equal shapes
ForwardShape(n, input) ==
    IF n.kind = "compact" THEN Through(n.layers, input)
    ELSE View(Through(n.layers, input), <<input[1], n.num_outputs, 3>>)

\* model(input_tensor) on a batch of pose vectors
Forward ==
    /\ net.pc = "model"
    /\ \E batch \in 1..MaxBatch, size \in {net.num_joints, net.num_joints + 1} :
         LET input == <<batch, size>>
         IN net' = [net EXCEPT
                      !.input = input,
                      !.output = ForwardShape(net, input),
                      !.forward_raised =
                          IF ForwardShape(net, input) = <<>>
                          THEN "RuntimeError" ELSE "none"]
    /\ UNCHANGED <<gate, trainer, disk, scene, collector, files, pipeline, ui>>

-----------------------------------------------------------------------------
(* The data-collection window of utils/data_collector.py                   *)
(*                                                                         *)
(* The module globals _collector and _sculpting_tool and the text          *)
(* sampleCountText.  The variable collector is _collector; the record ui   *)
(* holds the rest.  Every button handler runs from its first line to its   *)
(* return as one step: the window runs one handler at a time.              *)

\* CorrectiveSculptingTool.__init__ (lines 228-231): no corrective mesh yet
\* and a DataCollector of its own
NewTool == [current_corrective |-> "None", collector |-> NewCollector]

\* the window before init_collector: both globals None, the text as line
\* 368 creates it; captured keeps the samples the handlers have captured
\* since the last clear, last the handler that ran last, and raised whether
\* that handler ended with an exception
NoUi ==
    [initialized |-> FALSE, tool |-> NewTool, label |-> 0,
     captured |-> <<>>, last |-> "none", raised |-> FALSE]

UiInit == ui = NoUi

\* update_sample_count (lines 472-476): the text shows len(_collector.samples)
UpdatedLabel(c) == Len(c.samples)

\* cmds.duplicate(base_mesh, name=base_mesh + "_corrective")[0]: the host
\* gives the duplicate another name when the one asked for is taken
DuplicateName(sc) ==
    IF "body_corrective" \in DOMAIN sc.meshes
    THEN "body_corrective1" ELSE "body_corrective"

\* lines 241-249: the duplicate of the base mesh, moved by 5 units in x
\* (positions are read in world space, line 72)
Duplicated(positions) ==
    [v \in 1..Len(positions) |->
        <<positions[v][1] + 5 * Unit, positions[v][2], positions[v][3]>>]

\* the samples the first k turns of the loop of capture_pose_range append
\* (lines 148-151), the channel posed at one angle after the other
RangeSamples(sc, c, channel, angles, k) ==
    [i \in 1..k |->
        CapturedSample([sc EXCEPT !.attr[channel] = angles[i]], c, "None")]

\* init_collector (lines 405-419): a new DataCollector and a new
\* CorrectiveSculptingTool; a session starts with one such call
UiInitCollector ==
    /\ ~ui.initialized
    /\ collector.pc = "idle" /\ pipeline.pc = "none"
    /\ collector' = NewCollector
    /\ ui' = [ui EXCEPT !.initialized = TRUE, !.tool = NewTool,
                        !.last = "init_collector"]
    /\ UNCHANGED <<scene, files, pipeline>>
    /\ UNCHANGED <<gate, trainer, disk, net>>

\* capture_current (lines 422-426): 'Capture Current Pose'
UiCaptureCurrent ==
    /\ ui.initialized
    /\ collector.pc = "idle" /\ pipeline.pc = "none"
    /\ Len(ui.captured) < MaxStore
    /\ IF CaptureRaises(scene, collector, "None")
       THEN /\ collector' = [collector EXCEPT !.call = NoCall]
            /\ ui' = [ui EXCEPT !.last = "capture_current", !.raised = TRUE]
       ELSE LET sample == CapturedSample(scene, collector, "None")
                c == [collector EXCEPT !.samples = AppendSample(@, sample),
                                       !.call = NoCall]
            IN /\ collector' = c
               /\ ui' = [ui EXCEPT !.captured = Append(@, sample),
                                   !.label = UpdatedLabel(c),
                                   !.last = "capture_current",
                                   !.raised = FALSE]
    /\ UNCHANGED <<scene, files, pipeline>>
    /\ UNCHANGED <<gate, trainer, disk, net>>

\* create_corrective (lines 429-432, 233-257): 'Create Corrective
\* Duplicate'; one duplicate in a session
UiCreateCorrective ==
    /\ ui.initialized
    /\ collector.pc = "idle" /\ pipeline.pc = "none"
    /\ ui.tool.current_corrective = "None"
    /\ LET corrective == DuplicateName(scene) IN
         /\ scene' = [scene EXCEPT !.meshes =
                        (corrective :> Duplicated(scene.meshes[ui.tool.collector.base_mesh]))
                           @@ scene.meshes]
         /\ ui' = [ui EXCEPT !.tool.current_corrective = corrective,
                             !.tool.collector.corrective_mesh = corrective,
                             !.last = "create_corrective"]
    /\ UNCHANGED <<collector, files, pipeline>>
    /\ UNCHANGED <<gate, trainer, disk, net>>

\* capture_corrective (lines 435-439, 265-271): 'Capture with Corrective'
UiCaptureCorrective ==
    /\ ui.initialized
    /\ collector.pc = "idle" /\ pipeline.pc = "none"
    /\ Len(ui.captured) < MaxStore
    /\ Len(ui.tool.collector.samples) < MaxStore
    /\ IF ui.tool.current_corrective = "None"
       THEN ui' = [ui EXCEPT !.label = UpdatedLabel(collector),
                             !.last = "capture_corrective", !.raised = FALSE]
       ELSE IF CaptureRaises(scene, ui.tool.collector, ui.tool.current_corrective)
       THEN ui' = [ui EXCEPT !.last = "capture_corrective", !.raised = TRUE]
       ELSE LET sample == CapturedSample(scene, ui.tool.collector,
                                         ui.tool.current_corrective)
            IN ui' = [ui EXCEPT
                        !.tool.collector.samples = AppendSample(@, sample),
                        !.captured = Append(@, sample),
                        !.label = UpdatedLabel(collector),
                        !.last = "capture_corrective", !.raised = FALSE]
    /\ UNCHANGED <<scene, collector, files, pipeline>>
    /\ UNCHANGED <<gate, trainer, disk, net>>

\* auto_capture_range (lines 442-455, 129-157): 'Auto-Capture Range'.  The
\* call of capture_pose_range runs k turns of its loop; with k below the
\* number of angles the next turn raised (in setAttr, or after it), and the
\* exception passes update_sample_count by
UiAutoCaptureRange(joint, axis, start, end, steps) ==
    /\ ui.initialized
    /\ collector.pc = "idle" /\ pipeline.pc = "none"
    /\ Len(ui.captured) + Max(steps, 0) <= MaxStore
    /\ LET channel == <<joint, axis>>
           original_value == scene.attr[channel]
           angles == Linspace(start, end, steps)
       IN IF LinspaceRaises(steps)
          THEN /\ ui' = [ui EXCEPT !.last = "auto_capture_range",
                                   !.raised = TRUE]
               /\ collector' = [collector EXCEPT !.call = NoCall]
               /\ UNCHANGED scene
          ELSE \E k \in 0..Len(angles) :
                 LET new == RangeSamples(scene, collector, channel, angles, k)
                     c == [collector EXCEPT !.samples = @ \o new,
                                            !.call = NoCall]
                 IN /\ collector' = c
                    /\ IF k = Len(angles)
                       THEN /\ scene' = [scene EXCEPT !.attr =
                                           RestoredAttr(@, channel, original_value)]
                            /\ ui' = [ui EXCEPT
                                        !.captured = @ \o new,
                                        !.label = UpdatedLabel(c),
                                        !.last = "auto_capture_range",
                                        !.raised = FALSE]
                       ELSE /\ \E posed \in {IF k = 0 THEN original_value
                                             ELSE angles[k], angles[k + 1]} :
                                 scene' = [scene EXCEPT !.attr[channel] = posed]
                            /\ ui' = [ui EXCEPT
                                        !.captured = @ \o new,
                                        !.last = "auto_capture_range",
                                        !.raised = TRUE]
    /\ UNCHANGED <<files, pipeline>>
    /\ UNCHANGED <<gate, trainer, disk, net>>

\* save_dataset of the window (lines 458-462): 'Save Dataset'
UiSaveDataset ==
    /\ ui.initialized
    /\ collector.pc = "idle" /\ pipeline.pc = "none"
    /\ IF collector.samples = <<>>
       THEN UNCHANGED files
       ELSE IF Homogeneous(collector.samples)
       THEN files' = [dataset |-> SavedDataset(collector),
                      metadata |-> SavedMetadata(collector)]
       ELSE \/ UNCHANGED files
            \/ files' = [dataset |-> SavedDataset(collector),
                         metadata |-> SavedMetadata(collector)]
    /\ collector' = [collector EXCEPT !.call = NoCall]
    /\ ui' = [ui EXCEPT !.last = "save_dataset"]
    /\ UNCHANGED <<scene, pipeline>>
    /\ UNCHANGED <<gate, trainer, disk, net>>

\* clear_samples of the window (lines 465-469): 'Clear Samples'
UiClearSamples ==
    /\ ui.initialized
    /\ collector.pc = "idle" /\ pipeline.pc = "none"
    /\ LET c == [collector EXCEPT !.samples = ClearedSamples(@),
                                  !.call = NoCall]
       IN /\ collector' = c
          /\ ui' = [ui EXCEPT !.captured = <<>>, !.label = UpdatedLabel(c),
                              !.last = "clear_samples", !.raised = FALSE]
    /\ UNCHANGED <<scene, files, pipeline>>
    /\ UNCHANGED <<gate, trainer, disk, net>>

-----------------------------------------------------------------------------
(* The training run: train_corrective_deformer (train.py lines 252-304)    *)
(*                                                                         *)
(* The function loads the dataset, splits it, creates the model and the    *)
(* trainer and calls Trainer.train.  The steps of the load and of the      *)
(* factory are the actions LoadDataset and CreateModel above, those of the *)
(* trainer the actions of the trainer; here are the split, the hand-over   *)
(* and what the loaders and the model of the run do to an epoch.           *)

\* the defaults of the run: batch_size of train_corrective_deformer, and
\* the sizes create_model gives a network it is not passed sizes for (the
\* hidden list stands for the default lists)
BatchSize == 32
PcaComponents == 50
DefaultHidden == <<4, 8>>

\* validation split fractions, in hundredths
ValSplits == {0, 20, 50}

\* line 283: val_size = int(len(dataset) * val_split)
ValSize(num_samples, val_split) == (num_samples * val_split) \div 100

\* len(DataLoader(subset, batch_size)): the batches of a subset, the last
\* one kept when it is short
LoaderLen(size, batch_size) == (size + batch_size - 1) \div batch_size

\* the network create_model builds for the run (lines 294-298 pass
\* model_type, num_joints and num_vertices only)
RunNet(p) ==
    [kind |-> p.model_type,
     num_outputs |-> IF p.model_type = "compact" THEN PcaComponents
                     ELSE p.dataset.num_vertices,
     layers |-> Layers(p.model_type, p.dataset.num_joints,
                       IF p.model_type = "compact" THEN PcaComponents
                       ELSE p.dataset.num_vertices,
                       IF p.model_type = "residual" THEN <<>>
                       ELSE DefaultHidden)]

\* two shapes broadcast when, aligned at their last sizes, each pair of
\* sizes is equal or holds a 1
Broadcast(a, b) ==
    \A k \in 1..(IF Len(a) < Len(b) THEN Len(a) ELSE Len(b)) :
        LET x == a[Len(a) + 1 - k]
            y == b[Len(b) + 1 - k]
        IN x = y \/ x = 1 \/ y = 1

\* self.criterion(predictions, vertex_deltas) on a batch of the run:
\* nn.MSELoss raises RuntimeError for shapes that do not broadcast
CriterionRaises(p, batch) ==
    LET predictions == ForwardShape(RunNet(p), <<batch, p.dataset.num_joints>>)
        vertex_deltas == <<batch, p.dataset.num_vertices, 3>>
    IN predictions = <<>> \/ ~Broadcast(predictions, vertex_deltas)

\* the size of the first batch of a loader over `size' samples
FirstBatch(size, batch_size) == IF size < batch_size THEN size ELSE batch_size

\* lines 283-289: the split and the two loaders
SplitDataset ==
    /\ pipeline.pc = "loaded"
    /\ ~pipeline.split
    /\ \E val_split \in ValSplits :
         LET val_size == ValSize(pipeline.dataset.num_samples, val_split)
         IN pipeline' = [pipeline EXCEPT
                           !.split = TRUE, !.val_split = val_split,
                           !.val_size = val_size,
                           !.train_size = pipeline.dataset.num_samples - val_size]
    /\ UNCHANGED <<scene, collector, files>>
    /\ UNCHANGED <<gate, trainer, disk, net, ui>>

\* lines 294-298 within the run: create_model after the split
RunCreateModel ==
    /\ pipeline.split
    /\ CreateModel

\* line 301: trainer = Trainer(model, ...)
StartTrainer ==
    /\ pipeline.pc = "model"
    /\ trainer.pc = "none"
    /\ trainer' = NewTrainer(pipeline.model_type)
    /\ pipeline' = [pipeline EXCEPT !.pc = "training"]
    /\ UNCHANGED <<scene, collector, files>>
    /\ UNCHANGED <<gate, disk, net, ui>>

\* train_epoch on the training loader of the run: the criterion raises on
\* the first batch when the shapes do not agree, before any optimizer step;
\* an empty loader ends in the division of line 112
RunTrainEpoch ==
    /\ pipeline.pc = "training"
    /\ trainer.pc = "train_epoch"
    /\ LET batches == LoaderLen(pipeline.train_size, BatchSize)
           raised == IF batches = 0 THEN "ZeroDivisionError"
                     ELSE IF CriterionRaises(pipeline,
                                FirstBatch(pipeline.train_size, BatchSize))
                     THEN "RuntimeError" ELSE "none"
       IN IF raised # "none"
          THEN /\ trainer' = [trainer EXCEPT !.pc = "raised",
                                             !.raised_in = "train_epoch"]
               /\ pipeline' = [pipeline EXCEPT !.raised = raised]
               /\ UNCHANGED <<scene, collector, files>>
               /\ UNCHANGED <<gate, disk, net, ui>>
          ELSE TrainEpoch(TrainLossValues)

\* validate on the validation loader of the run: over an empty loader the
\* loop has no turn and line 137 divides by len(val_loader) = 0
RunValidate ==
    /\ pipeline.pc = "training"
    /\ trainer.pc = "validate"
    /\ LET batches == LoaderLen(pipeline.val_size, BatchSize)
           raised == IF batches = 0 THEN "ZeroDivisionError"
                     ELSE IF CriterionRaises(pipeline,
                                FirstBatch(pipeline.val_size, BatchSize))
                     THEN "RuntimeError" ELSE "none"
       IN IF raised # "none"
          THEN /\ trainer' = [trainer EXCEPT !.pc = "raised",
                                             !.raised_in = "validate"]
               /\ pipeline' = [pipeline EXCEPT !.raised = raised]
               /\ UNCHANGED <<scene, collector, files>>
               /\ UNCHANGED <<gate, disk, net, ui>>
          ELSE Validate(ValLossValues)

-----------------------------------------------------------------------------
(* Specifications *)

GateNext ==
    \E d \in ActiveDeformers :
        \/ LoadModel(d)
        \/ BeginDeform(d)
        \/ ReadInputs(d)
        \/ ComputeStep(d)
        \/ ApplyStep(d)
        \/ EndEvaluation(d)

\* two nodes evaluated at the same time: the steps of their evaluations
\* interleave in any order
ConcurrentNext ==
    \E d \in Deformers :
        \/ LoadModel(d)
        \/ BeginConcurrent(d)
        \/ ReadInputs(d)
        \/ ComputeStep(d)
        \/ ApplyStep(d)
        \/ EndEvaluation(d)

\* validation losses of a run that converges: never above the one before
NonIncreasing(values) ==
    {v \in values : trainer.val_losses = <<>>
                       \/ v <= trainer.val_losses[Len(trainer.val_losses)]}

TrainNext ==
    \/ CreateTrainer
    \/ TrainCall(0..MaxEpochs, MaxHistory)
    \/ TrainEpoch(TrainLossValues)
    \/ Validate(ValLossValues)
    \/ SchedulerStep
    \/ BestCheckpoint
    \/ PeriodicCheckpoint
    \/ ExportBegin
    \/ ExportTorchScript
    \/ ExportOnnx
    \/ ExportMetadata

LongNext ==
    \/ CreateTrainer
    \/ TrainCall((LongEpochs - 1)..LongEpochs, LongEpochs)
    \/ TrainEpoch({2})
    \/ Validate(NonIncreasing({1, 2, 3}))
    \/ SchedulerStep
    \/ BestCheckpoint
    \/ PeriodicCheckpoint
    \/ ExportBegin
    \/ ExportTorchScript
    \/ ExportOnnx
    \/ ExportMetadata

\* the auto-capture of pose ranges on a store the animator may have
\* started by hand
RangeNext ==
    \/ HostSetAttr
    \/ CaptureSample({"None"})
    \/ \E joint \in {Joints[1]}, axis \in {"rotateZ"},
          start \in RangeEnds, end \in RangeEnds, steps \in StepCounts :
          CapturePoseRange(joint, axis, start, end, steps)
    \/ RangeStep
    \/ RangeRestore

\* capture by hand, save, clear, and the pipeline that loads the file
StoreNext ==
    \/ HostSetAttr
    \/ HostEditMesh
    \/ HostWriteFile
    \/ CaptureSample({"None", "body_corrective"})
    \/ SaveDataset
    \/ ClearSamples
    \/ LoadDataset
    \/ CreateModel

\* a network constructed and evaluated on its own
NetNext ==
    \/ ConstructNet
    \/ Forward

\* a session at the data-collection window
UiNext ==
    \/ UiInitCollector
    \/ UiCaptureCurrent
    \/ UiCreateCorrective
    \/ UiCaptureCorrective
    \/ \E joint \in {Joints[1]}, axis \in {"rotateZ"},
          start \in RangeEnds, end \in RangeEnds, steps \in StepCounts :
          UiAutoCaptureRange(joint, axis, start, end, steps)
    \/ UiSaveDataset
    \/ UiClearSamples

\* a dataset is collected and saved, and train_corrective_deformer runs
\* on the file
RunNext ==
    \/ CaptureSample({"None"})
    \/ SaveDataset
    \/ LoadDataset
    \/ SplitDataset
    \/ RunCreateModel
    \/ StartTrainer
    \/ TrainCall(1..MaxEpochs, MaxHistory)
    \/ RunTrainEpoch
    \/ RunValidate
    \/ SchedulerStep
    \/ BestCheckpoint
    \/ PeriodicCheckpoint
    \/ ExportBegin
    \/ ExportTorchScript
    \/ ExportOnnx
    \/ ExportMetadata

Init == GateInit /\ TrainerInit /\ DiskInit /\ DataInit /\ NetInit /\ UiInit

SpecGate == Init /\ [][GateNext]_vars

SpecConcurrent == Init /\ [][ConcurrentNext]_vars

SpecTrain == Init /\ [][TrainNext]_vars

SpecTrainLong == Init /\ [][LongNext]_vars

SpecRange == Init /\ [][RangeNext]_vars

SpecStore == Init /\ [][StoreNext]_vars

SpecNet == Init /\ [][NetNext]_vars

SpecUi == Init /\ [][UiNext]_vars

SpecRun == Init /\ [][RunNext]_vars

-----------------------------------------------------------------------------
(* Claims about the inference gate *)

\* the displacement deform is to give vertex v of node g: the correction
\* computed from v's own position before the evaluation, times the weight
Expected(g, v) ==
    ApplyWeighted(g.pre[v],
                  SimpleCorrection(g.pre[v], g.dataBlock.poseAngle),
                  g.dataBlock.correctionWeight)

\* an evaluation whose inputs would move some visited vertex
WouldMove(g) == \E v \in RangeOf(g.members) : Expected(g, v) # g.pre[v]

\* C1: with enableML false an evaluation performs no setPosition and every
\* vertex keeps the position it had before the call, whatever the pose
\* angle, the correction weight and model_loaded are.
C1_DisabledLeavesMesh ==
    \A d \in Deformers :
        ~gate[d].dataBlock.enableML =>
            /\ gate[d].written = <<>>
            /\ gate[d].pos = gate[d].pre

C1_Witness ==
    \E d \in Deformers :
        /\ gate[d].pc = "returned"
        /\ ~gate[d].dataBlock.enableML
        /\ ~gate[d].faulted
        /\ gate[d].model_loaded
        /\ WouldMove(gate[d])

\* C2 (as claimed): after an evaluation with enableML true and no fault,
\* every vertex the iterator visits stands at its position before the
\* evaluation plus the delta predicted for that vertex times
\* correctionWeight, component by component, and no vertex was displaced
\* more than once.
C2_EachVertexDisplaced ==
    \A d \in Deformers :
        (gate[d].pc = "returned" /\ gate[d].dataBlock.enableML /\ ~gate[d].faulted) =>
            \A v \in RangeOf(gate[d].members) :
                /\ gate[d].pos[v] = Expected(gate[d], v)
                /\ Count(gate[d].written, v) <= 1

\* C3: deform never lets a failure reach the host: an exception raised at
\* any step of an evaluation ends the evaluation with a normal return.
C3_NeverPropagates ==
    \A d \in Deformers :
        /\ gate[d].pc # "raised"
        /\ gate[d].faulted => gate[d].pc = "returned"

C3_Witness ==
    \E d \in Deformers :
        /\ gate[d].faulted
        /\ gate[d].pc = "returned"
        /\ gate[d].enable_ml = FALSE
        /\ gate[d].dataBlock.enableML

\* C4 (as claimed): an evaluation in which an exception was raised leaves
\* every vertex at its position before the evaluation.
C4_FaultIsZeroDelta ==
    \A d \in Deformers :
        (gate[d].pc = "returned" /\ gate[d].faulted) => gate[d].pos = gate[d].pre

\* C5 (as claimed): while model_loaded is false an evaluation with enableML
\* true leaves every vertex where it was, as one with enableML false does.
C5_NoModelNoCorrection ==
    \A d \in Deformers :
        (~gate[d].model_loaded /\ gate[d].dataBlock.enableML) =>
            gate[d].pos = gate[d].pre

-----------------------------------------------------------------------------
(* Claims about the trainer *)

\* the lowest of the losses of a history, float('inf') for an empty one
RECURSIVE MinLoss(_)
MinLoss(h) ==
    IF h = <<>> THEN Inf
    ELSE LET m == MinLoss(SubSeq(h, 1, Len(h) - 1))
         IN IF h[Len(h)] < m THEN h[Len(h)] ELSE m

\* epoch i of the validation history improved strictly on all before it
Improved(i) ==
    trainer.val_losses[i] < MinLoss(SubSeq(trainer.val_losses, 1, i - 1))

\* the best-checkpoint decision of the i-th recorded epoch has been taken
Decided(i) ==
    i < Len(trainer.val_losses) \/ trainer.pc \notin {"scheduler", "best"}

\* C6: the best checkpoint is written in an epoch exactly when that epoch's
\* validation loss is strictly below every earlier one of the Trainer;
\* after every epoch best_val_loss is the minimum of the recorded
\* validation losses, and the best-checkpoint file exists exactly when
\* some epoch improved strictly on the best before it.
C6_BestCheckpointPolicy ==
    /\ \A i \in 1..Len(trainer.val_losses) :
          Decided(i) => (i \in trainer.best_saved_at <=> Improved(i))
    /\ Decided(Len(trainer.val_losses)) =>
          /\ trainer.best_val_loss = MinLoss(trainer.val_losses)
          /\ disk.best # {} <=> \E i \in 1..Len(trainer.val_losses) : Improved(i)

\* three epochs recorded: the first wrote the best checkpoint, the second
\* repeated its loss (no write), the third improved again
C6_Witness ==
    /\ trainer.pc = "done"
    /\ Len(trainer.val_losses) = 3
    /\ trainer.val_losses[2] = trainer.val_losses[1]
    /\ trainer.best_saved_at = {1, 3}
    /\ \E c \in disk.best : c.val_loss = trainer.val_losses[3]

\* C7: the periodic checkpoint of epoch number k (1-based) of a call has
\* been written exactly when k is a multiple of 10 and epoch k is
\* completed, whatever the validation losses and the best checkpoint did.
C7_PeriodicCheckpointPolicy ==
    \A k \in 1..(LongEpochs + 1) :
        k \in trainer.periodic_written <=>
            /\ \E m \in 1..k : k = m * CheckpointPeriod
            /\ k <= trainer.epoch

\* checkpoints of epochs 10 and 20 on disk: epoch 10 did not improve the
\* validation loss, epoch 20 did and wrote the best checkpoint as well
C7_Witness ==
    /\ trainer.pc = "done"
    /\ trainer.periodic_written = {CheckpointPeriod, 2 * CheckpointPeriod}
    /\ \E c \in disk.periodic : c.k = CheckpointPeriod
    /\ \E c \in disk.periodic :
          /\ c.k = 2 * CheckpointPeriod
          /\ \E b \in disk.best : b.epoch = c.checkpoint.epoch
    /\ CheckpointPeriod \notin trainer.best_saved_at
    /\ 2 * CheckpointPeriod \in trainer.best_saved_at

\* the entries the current call has added to a history when train() is at
\* step pc with `epoch' epochs completed
AddedByCall(history) ==
    Len(history) - trainer.len_at_call

C8_Lengths ==
    /\ trainer.pc \in {"train_epoch", "export", "export_torchscript",
                       "export_onnx", "export_metadata", "done"} =>
          /\ AddedByCall(trainer.train_losses) = trainer.epoch
          /\ AddedByCall(trainer.val_losses) = trainer.epoch
    /\ trainer.pc = "validate" =>
          /\ AddedByCall(trainer.train_losses) = trainer.epoch + 1
          /\ AddedByCall(trainer.val_losses) = trainer.epoch
    /\ trainer.pc \in {"scheduler", "best", "periodic"} =>
          /\ AddedByCall(trainer.train_losses) = trainer.epoch + 1
          /\ AddedByCall(trainer.val_losses) = trainer.epoch + 1
    /\ trainer.pc = "done" =>
          /\ trainer.epoch = trainer.num_epochs
          /\ Len(trainer.train_losses) >= trainer.num_epochs
          /\ Len(trainer.val_losses) >= trainer.num_epochs
          /\ Len(trainer.train_losses) = Len(trainer.val_losses)
          /\ trainer.len_at_call = 0 =>
                Len(trainer.train_losses) = trainer.num_epochs

C8_NeverShrinks ==
    /\ Len(trainer'.train_losses) >= Len(trainer.train_losses)
    /\ Len(trainer'.val_losses) >= Len(trainer.val_losses)
    /\ SubSeq(trainer'.train_losses, 1, Len(trainer.train_losses))
          = trainer.train_losses
    /\ SubSeq(trainer'.val_losses, 1, Len(trainer.val_losses))
          = trainer.val_losses

C9_ExportsFinalModelOnce ==
    /\ trainer.pc \in {"train_epoch", "validate", "scheduler", "best",
                       "periodic", "export"} =>
          trainer.export_calls = 0 /\ trainer.exported = {}
    /\ (trainer.pc = "raised" /\ trainer.raised_in # "export") =>
          trainer.export_calls = 0 /\ trainer.exported = {}
    /\ trainer.pc \in {"export_torchscript", "export_onnx",
                       "export_metadata", "done"}
         \/ (trainer.pc = "raised" /\ trainer.raised_in = "export") =>
          /\ trainer.export_calls = 1
          /\ trainer.epoch = trainer.num_epochs
          /\ \A a \in trainer.exported : a.weights = trainer.weights

\* the run is done, both formats were exported, and the best checkpoint
\* holds other weights than the exported model: the last epoch's
\* validation loss is above the best one
C9_Witness ==
    /\ trainer.pc = "done"
    /\ Cardinality(trainer.exported) = 2
    /\ trainer.val_loss > trainer.best_val_loss
    /\ \E c \in disk.best : c.model_state_dict # trainer.weights
    /\ disk.torchscript = {trainer.weights}

\* C10 (as claimed): whatever formats succeed or fail, once the exporter
\* has been called both formats are attempted and the export does not raise.
C10_ExportNeverRaises ==
    trainer.export_calls = 1 =>
        /\ ~(trainer.pc = "raised" /\ trainer.raised_in = "export")
        /\ trainer.pc = "done" => trainer.attempted = {"torchscript", "onnx"}

\* C11 (as claimed): for every model kind and every combination of format
\* successes and failures, a call of the exporter ends with the metadata
\* sidecar written.
C11_MetadataAlwaysWritten ==
    (trainer.export_calls = 1 /\ trainer.pc \in {"done", "raised"}) =>
        disk.metadata # {}

-----------------------------------------------------------------------------
(* Claims about the data collector *)

\* the place of a channel in the pose vector of a sample
ChannelIndex(channel) ==
    LET j == CHOOSE n \in 1..Len(Joints) : Joints[n] = channel[1]
        a == CHOOSE n \in 1..Len(Axes) : Axes[n] = channel[2]
    IN 3 * (j - 1) + a

\* the call of capture_pose_range that has just returned normally
RangeCompleted ==
    /\ collector.call.op = "capture_pose_range"
    /\ collector.call.completed

\* the value of the driven channel in the sample the call added at its
\* step i (1-based)
CapturedAt(i) ==
    collector.samples[Len(collector.call.samples) + i]
        .joint_angles[ChannelIndex(collector.call.channel)]

\* C12: a call capture_pose_range(joint, axis, start, end, steps) that
\* returns has added exactly `steps' samples behind the ones the store
\* held, the i-th of them taken with the channel at
\* start + (i - 1) * (end - start) / (steps - 1): the first at start, the
\* last at end, and only start for steps = 1.
C12_EvenlySpacedSamples ==
    RangeCompleted =>
        LET call == collector.call
        IN /\ Len(collector.samples) = Len(call.samples) + call.steps
           /\ SubSeq(collector.samples, 1, Len(call.samples)) = call.samples
           /\ \A i \in 1..call.steps :
                 /\ (call.steps - 1) * CapturedAt(i) =
                       Unit * ((call.steps - 1) * call.start
                               + (i - 1) * (call.end - call.start))
                 /\ i = 1 => CapturedAt(i) = Unit * call.start
                 /\ (i = call.steps /\ i > 1) =>
                       CapturedAt(i) = Unit * call.end

\* a range of MaxSteps steps from 0 to 120 has returned on a store that
\* held a sample, and its second step was taken strictly between the ends
C12_Witness ==
    /\ RangeCompleted
    /\ collector.call.steps = MaxSteps
    /\ collector.call.start = 0
    /\ collector.call.end = 120
    /\ Len(collector.call.samples) = 1
    /\ Len(collector.samples) = 1 + MaxSteps
    /\ CapturedAt(2) > 0
    /\ CapturedAt(2) < Unit * 120

\* C13: a call of capture_pose_range that ran all its steps and returned
\* leaves the driven channel at the value it had when the call was made,
\* also when that value lies outside the range, and every other channel as
\* it was.
C13_RestoresDrivenChannel ==
    RangeCompleted =>
        /\ scene.attr[collector.call.channel] = collector.call.attr[collector.call.channel]
        /\ \A c \in Channels \ {collector.call.channel} :
              scene.attr[c] = collector.call.attr[c]

\* a range of several steps over 0..120 has returned in a scene whose
\* driven channel stood at 240 before the call, and stands there again
C13_Witness ==
    /\ RangeCompleted
    /\ collector.call.steps >= 2
    /\ collector.call.start # collector.call.end
    /\ collector.call.attr[collector.call.channel] = 240
    /\ scene.attr[collector.call.channel] = 240
    /\ Len(collector.samples) >= 2
    /\ CapturedAt(collector.call.steps) # Unit * 240

\* C14 (as claimed): when a call of capture_pose_range has ended, normally
\* or by an exception of one of its steps, the driven channel holds the
\* value it had when the call was made.
C14_RestoresOnFailure ==
    (collector.call.op = "capture_pose_range" /\ collector.pc = "idle") =>
        scene.attr[collector.call.channel] = collector.call.attr[collector.call.channel]

\* the call of capture_pose_range that an exception of step k has ended
RangeFailed ==
    /\ collector.call.op = "capture_pose_range"
    /\ collector.pc = "idle"
    /\ collector.call.failed_at >= 0

\* C15: when capture_pose_range fails at its step k (0-based), the store
\* holds the samples it held before the call followed by the k samples of
\* the steps before k, in step order, and nothing else; no step after k
\* runs.
C15_PartialCaptureRetained ==
    RangeFailed =>
        LET call == collector.call
            k == call.failed_at
        IN /\ Len(collector.samples) = Len(call.samples) + k
           /\ SubSeq(collector.samples, 1, Len(call.samples)) = call.samples
           /\ call.i = k
           /\ \A i \in 1..k :
                 CapturedAt(i) = Unit * Linspace(call.start, call.end, call.steps)[i]

\* the third step of a range failed in capture_sample on a store that held
\* a sample: the two samples of the steps before it are in the store
C15_Witness ==
    /\ RangeFailed
    /\ collector.call.failed_at = 2
    /\ collector.call.failed_in = "capture_sample"
    /\ Len(collector.call.samples) = 1
    /\ Len(collector.samples) = 3
    /\ CapturedAt(1) # CapturedAt(2)

\* C16 (as claimed): a capture whose pose length or delta length differs
\* from the lengths of the first sample of the store fails and leaves the
\* store as it was, so every sample of a store has the lengths of the
\* first.
C16_ShapeMismatchRejected ==
    \A i \in 1..Len(collector.samples) :
        /\ Len(collector.samples[i].joint_angles)
              = Len(collector.samples[1].joint_angles)
        /\ Len(collector.samples[i].vertex_deltas)
              = Len(collector.samples[1].vertex_deltas)

-----------------------------------------------------------------------------
(* Claims about the dataset file, its loader and the model factory *)

\* the dataset the pipeline holds was loaded from the file save_dataset
\* wrote for the samples now in the store
LoadedFromStore ==
    /\ pipeline.pc = "loaded"
    /\ collector.samples # <<>>
    /\ Homogeneous(collector.samples)
    /\ files.dataset = SavedDataset(collector)

Abs(x) == IF x < 0 THEN -x ELSE x

\* y is the float32 nearest to the number x / scale
NearestFloat32(y, x, scale) ==
    /\ y % Float32Step = 0
    /\ 2 * Abs(scale * y - x) <= scale * Float32Step

\* C17 (as claimed): the dataset loaded from the file save_dataset wrote
\* holds, in the order of the store, pose vectors and delta fields equal
\* to the ones of the samples.
C17_RoundTripEqual ==
    LoadedFromStore =>
        /\ Len(pipeline.dataset.joint_angles) = Len(collector.samples)
        /\ Len(pipeline.dataset.vertex_deltas) = Len(collector.samples)
        /\ \A i \in 1..Len(collector.samples) :
              /\ pipeline.dataset.joint_angles[i]
                    = collector.samples[i].joint_angles
              /\ pipeline.dataset.vertex_deltas[i]
                    = collector.samples[i].vertex_deltas

\* C17 (amended): the dataset loaded from the file save_dataset wrote
\* holds one pose vector and one delta field per sample, in the order of
\* the store; each pose entry is the float32 nearest to the sample's angle
\* in degrees over 180, each delta entry the float32 nearest to the
\* sample's delta entry.
C17_RoundTripNormalized ==
    LoadedFromStore =>
        /\ pipeline.dataset.num_samples = Len(collector.samples)
        /\ Len(pipeline.dataset.joint_angles) = Len(collector.samples)
        /\ Len(pipeline.dataset.vertex_deltas) = Len(collector.samples)
        /\ \A i \in 1..Len(collector.samples) :
              LET sample == collector.samples[i]
                  pose == pipeline.dataset.joint_angles[i]
                  delta == pipeline.dataset.vertex_deltas[i]
              IN /\ Len(pose) = Len(sample.joint_angles)
                 /\ Len(delta) = Len(sample.vertex_deltas)
                 /\ \A k \in 1..Len(pose) :
                       NearestFloat32(pose[k], sample.joint_angles[k], 180)
                 /\ \A v \in 1..Len(delta), x \in 1..3 :
                       NearestFloat32(delta[v][x], sample.vertex_deltas[v][x], 1)

\* two different samples were saved and loaded: the first with rotateZ at
\* 240 degrees and the sculpted deltas, the second with zero deltas; the
\* loaded pose and delta of the first differ from the sample's
C17_Witness ==
    /\ LoadedFromStore
    /\ Len(collector.samples) = 2
    /\ collector.samples[1].joint_angles[3] = Unit * 240
    /\ collector.samples[1].vertex_deltas # ZerosLike(BaseMesh)
    /\ collector.samples[2].vertex_deltas = ZerosLike(BaseMesh)
    /\ pipeline.dataset.joint_angles[1] # collector.samples[1].joint_angles
    /\ pipeline.dataset.vertex_deltas[1] # collector.samples[1].vertex_deltas
    /\ pipeline.dataset.vertex_deltas[2] = collector.samples[2].vertex_deltas

\* a step of clear_samples empties the store, and no step that changes the
\* store changes a file
C18_SnapshotStep ==
    /\ ClearSamples => (collector'.samples = <<>> /\ files' = files)
    /\ collector'.samples # collector.samples => files' = files

\* C18: clear_samples leaves the store empty and every saved file as it
\* was, and no later capture or clear on the collector changes what
\* save_dataset persisted.
C18_SavedIsSnapshot == [][C18_SnapshotStep]_vars

\* the file and the sidecar save_dataset wrote for two samples are on
\* disk, and the store has been cleared since
C18_Witness ==
    /\ collector.samples = <<>>
    /\ files.dataset.exists
    /\ files.dataset.keys = DatasetKeys
    /\ Len(files.dataset.joint_angles) = 2
    /\ Len(files.dataset.vertex_deltas) = 2
    /\ files.metadata.exists
    /\ files.metadata.num_samples = 2

\* C19 (as claimed): the loader yields no dataset from a file whose pose
\* array and delta array hold different numbers of samples: a dataset it
\* yields reports no more samples than it has delta fields.
C19_InconsistentRejected ==
    /\ Len(pipeline.dataset.joint_angles) = Len(pipeline.dataset.vertex_deltas)
    /\ pipeline.dataset.num_samples <= Len(pipeline.dataset.vertex_deltas)

\* C20: create_model raises ValueError and returns no model for every
\* model_type outside standard, compact and residual, and returns a model of
\* the class of the kind for each of the three.
C20_FactoryRejectsUnknown ==
    pipeline.model_type # "" =>
        IF pipeline.model_type \in {"standard", "compact", "residual"}
        THEN /\ pipeline.pc = "model"
             /\ pipeline.raised = "none"
             /\ pipeline.model_type = "standard" =>
                   pipeline.model = "CorrectiveDeformerNet"
             /\ pipeline.model_type = "compact" =>
                   pipeline.model = "CompactCorrectiveNet"
             /\ pipeline.model_type = "residual" =>
                   pipeline.model = "ResidualCorrectiveNet"
        ELSE /\ pipeline.pc = "raised"
             /\ pipeline.raised = "ValueError"
             /\ pipeline.model = "None"

\* the factory was called with a model_type that differs from a supported
\* one by its case only, and raised
C20_Witness ==
    /\ pipeline.model_type = "Standard"
    /\ pipeline.raised = "ValueError"
    /\ pipeline.model = "None"
    /\ pipeline.dataset.num_samples > 0

-----------------------------------------------------------------------------
(* Claims about the networks *)

\* C21 (as claimed): constructing a network with num_joints <= 0, with
\* num_vertices (pca_components for the compact kind) <= 0 or with an
\* empty list of hidden sizes fails and returns no model, for every kind,
\* by the class and through create_model.
C21_InvalidArchitectureRejected ==
    (/\ net.pc # "none"
     /\ \/ net.num_joints <= 0
        \/ net.num_outputs <= 0
        \/ (net.kind # "residual" /\ net.hidden_layers = <<>>)) =>
        /\ net.pc = "raised"
        /\ net.model = "None"

\* C22: forward of a constructed network on a batch of B >= 1 pose vectors
\* of length num_joints raises nothing and returns a tensor of shape
\* [B, num_vertices, 3] for the standard and the residual kind and
\* [B, pca_components] for the compact kind.
C22_OutputShape ==
    (net.pc = "model" /\ net.input # <<>> /\ net.input[2] = net.num_joints) =>
        /\ net.forward_raised = "none"
        /\ net.kind \in {"standard", "residual"} =>
              net.output = <<net.input[1], net.num_outputs, 3>>
        /\ net.kind = "compact" =>
              net.output = <<net.input[1], net.num_outputs>>

\* a residual network made by create_model for 2 channels and 2 vertices
\* has evaluated a batch of MaxBatch pose vectors
C22_Witness ==
    /\ net.pc = "model"
    /\ net.via = "create_model"
    /\ net.kind = "residual"
    /\ net.num_joints = 2
    /\ net.num_outputs = 2
    /\ net.input = <<MaxBatch, 2>>
    /\ net.output = <<MaxBatch, 2, 3>>

-----------------------------------------------------------------------------
(* Claims about the persisted dataset *)

\* the dataset file at the path is one save_dataset wrote
SavedByCollector ==
    /\ files.dataset.exists
    /\ files.dataset \notin ForeignFiles
    /\ files.metadata.exists

\* C23 (as claimed): in every dataset save_dataset persisted, every pose
\* vector is as long as the header's num_joints and the list of names, and
\* every delta field is as long as the header's num_vertices.
C23_HeaderInvariant ==
    SavedByCollector =>
        /\ \A i \in 1..Len(files.dataset.joint_angles) :
              /\ Len(files.dataset.joint_angles[i]) = files.metadata.num_joints
              /\ Len(files.dataset.joint_angles[i]) = Len(files.dataset.joint_names)
        /\ \A i \in 1..Len(files.dataset.vertex_deltas) :
              /\ Len(files.dataset.vertex_deltas[i]) = files.dataset.num_vertices
              /\ Len(files.dataset.vertex_deltas[i]) = files.metadata.num_vertices

\* C24 (as claimed): every component of every pose vector save_dataset
\* wrote lies in [-1, 1], whatever the captured channel values were.
C24_PoseNormalizedRange ==
    SavedByCollector =>
        \A i \in 1..Len(files.dataset.joint_angles) :
            \A k \in 1..Len(files.dataset.joint_angles[i]) :
                /\ files.dataset.joint_angles[i][k] >= -Unit
                /\ files.dataset.joint_angles[i][k] <= Unit

-----------------------------------------------------------------------------
(* Claims about concurrent evaluations of the gate *)

\* deform run from its first line to its return with no other evaluation
\* in between and no exception: the corrections of the members in visiting
\* order (lines 90-108), then one weighted displacement of every member
\* whose index lies below the length of that list (lines 66-80)
DeformAlone(pre, members, dataBlock) ==
    IF ~dataBlock.enableML
    THEN pre
    ELSE LET corrections ==
                 [k \in 1..Len(members) |->
                     SimpleCorrection(pre[members[k]], dataBlock.poseAngle)]
         IN [v \in Vertices |->
                IF v \in RangeOf(members) /\ v < Len(corrections)
                THEN ApplyWeighted(pre[v], corrections[v + 1],
                                   dataBlock.correctionWeight)
                ELSE pre[v]]

\* the steps of an evaluation on a node
Evaluating(g) == g.pc \in {"inputs", "compute", "apply"}

\* C25: whatever the interleaving of the evaluations of two nodes, a node
\* whose evaluation returns without a fault holds the vertex positions its
\* evaluation gives when it runs alone, and no step of an evaluation on any
\* node writes a node's input attributes (pose angle, correction weight,
\* enable flag) or its loaded model.
C25_ReentrantStep ==
    \A d \in Deformers :
        /\ (Evaluating(gate[d]) /\ gate'[d].pc = "returned" /\ ~gate'[d].faulted)
              => gate'[d].pos = DeformAlone(gate[d].pre, gate[d].members,
                                            gate[d].dataBlock)
        /\ (/\ \E e \in Deformers : Evaluating(gate[e]) /\ gate'[e] # gate[e]
            /\ Evaluating(gate[d]) \/ gate[d].pc = "returned")
              =>    /\ gate'[d].dataBlock = gate[d].dataBlock
                       /\ gate'[d].model_loaded = gate[d].model_loaded
                       /\ gate'[d].pre = gate[d].pre
                       /\ gate'[d].members = gate[d].members

C25_Reentrant == [][C25_ReentrantStep]_vars

\* both nodes stand in the middle of their displacement loops, with
\* different inputs and different lists of corrections, and both have moved
\* a vertex already
C25_Witness ==
    /\ gate["d1"].pc = "apply" /\ gate["d2"].pc = "apply"
    /\ gate["d1"].written # <<>> /\ gate["d2"].written # <<>>
    /\ gate["d1"].cur <= Len(gate["d1"].members)
    /\ gate["d2"].cur <= Len(gate["d2"].members)
    /\ gate["d1"].dataBlock # gate["d2"].dataBlock
    /\ gate["d1"].corrections # gate["d2"].corrections
    /\ gate["d1"].pos # gate["d1"].pre /\ gate["d2"].pos # gate["d2"].pre
    /\ gate["d1"].model_loaded /\ gate["d2"].model_loaded

-----------------------------------------------------------------------------
(* Claims about the epochs of the trainer *)

\* a checkpoint written at the checkpoint decisions of the epoch trainer t
\* is in: the epoch's index, its validation loss, and histories that hold
\* one entry for every epoch up to and including this one
CheckpointOfEpoch(c, t) ==
    /\ c.epoch = t.epoch
    /\ c.val_loss = t.val_loss
    /\ c.train_losses = t.train_losses
    /\ c.val_losses = t.val_losses
    /\ Len(c.train_losses) = t.len_at_call + t.epoch + 1
    /\ Len(c.val_losses) = t.len_at_call + t.epoch + 1
    /\ c.val_losses[Len(c.val_losses)] = c.val_loss
    /\ c.train_losses[Len(c.train_losses)] = t.train_loss

\* C26: within every epoch the steps come in the order train all batches
\* and record the training loss, validate and record the validation loss,
\* scheduler step, best-checkpoint decision, periodic-checkpoint decision;
\* the next epoch starts only after the periodic-checkpoint decision; and
\* every checkpoint written in epoch e carries the index e, the validation
\* loss of e and histories that already include e.
C26_EpochOrderStep ==
    /\ (trainer.pc = "train_epoch" /\ trainer'.pc # "raised") =>
          /\ trainer'.pc = "validate"
          /\ trainer'.epoch = trainer.epoch
          /\ Len(trainer'.train_losses) = Len(trainer.train_losses) + 1
          /\ trainer'.val_losses = trainer.val_losses
          /\ disk' = disk
    /\ (trainer.pc = "validate" /\ trainer'.pc # "raised") =>
          /\ trainer'.pc = "scheduler"
          /\ trainer'.epoch = trainer.epoch
          /\ trainer'.train_losses = trainer.train_losses
          /\ Len(trainer'.val_losses) = Len(trainer.val_losses) + 1
          /\ Len(trainer'.val_losses) = Len(trainer'.train_losses)
          /\ trainer'.scheduler_steps = trainer.scheduler_steps
          /\ disk' = disk
    /\ trainer.pc = "scheduler" =>
          /\ trainer'.pc = "best"
          /\ trainer'.epoch = trainer.epoch
          /\ trainer'.scheduler_steps = trainer.scheduler_steps + 1
          /\ trainer'.best_val_loss = trainer.best_val_loss
          /\ disk' = disk
    /\ trainer.pc = "best" =>
          /\ trainer'.pc = "periodic"
          /\ trainer'.epoch = trainer.epoch
          /\ disk'.periodic = disk.periodic
    /\ trainer.pc = "periodic" =>
          /\ trainer'.pc \in {"train_epoch", "export"}
          /\ trainer'.epoch = trainer.epoch + 1
          /\ disk'.best = disk.best
    /\ (trainer'.pc = "train_epoch" /\ trainer.pc # "train_epoch") =>
          \/ trainer.pc = "periodic"
          \/ trainer.pc \in {"ready", "done"} /\ trainer'.epoch = 0
    /\ disk'.best # disk.best =>
          /\ trainer.pc = "best"
          /\ \A c \in disk'.best : CheckpointOfEpoch(c, trainer)
    /\ \A c \in disk'.periodic \ disk.periodic :
          /\ trainer.pc = "periodic"
          /\ CheckpointOfEpoch(c.checkpoint, trainer)

C26_EpochOrder == [][C26_EpochOrderStep]_vars

\* the epoch with index 20 has started after both checkpoint decisions of
\* the epoch before it: the periodic checkpoint of that epoch and a best
\* checkpoint of an earlier epoch are on the disk
C26_Witness ==
    /\ trainer.pc = "train_epoch"
    /\ trainer.epoch = 2 * CheckpointPeriod
    /\ \E c \in disk.periodic :
          /\ c.k = 2 * CheckpointPeriod
          /\ c.checkpoint.epoch = 2 * CheckpointPeriod - 1
          /\ Len(c.checkpoint.val_losses) = 2 * CheckpointPeriod
    /\ \E c \in disk.best : c.epoch > 0 /\ c.epoch < 2 * CheckpointPeriod - 1

\* C27: a validation pass leaves the model weights and the optimizer state
\* as they were before it, whether it returns or raises; the weights change
\* only in the optimizer steps of train_epoch.
C27_ValidateFrameStep ==
    /\ trainer.pc = "validate" =>
          /\ trainer'.weights = trainer.weights
          /\ trainer'.scheduler_steps = trainer.scheduler_steps
    /\ trainer'.weights # trainer.weights =>
          /\ trainer.pc = "train_epoch"
          /\ trainer'.weights = trainer.weights + 1

C27_ValidateFrame == [][C27_ValidateFrameStep]_vars

\* a second validation pass has returned: the weights are those the two
\* training epochs left
C27_Witness ==
    /\ trainer.pc = "scheduler"
    /\ trainer.epoch = 1
    /\ Len(trainer.val_losses) = 2
    /\ trainer.weights = 2

-----------------------------------------------------------------------------
(* Claims about the data-collection window *)

\* the row save_dataset writes for a sample
SavedRow(sample) ==
    [joint_angles |-> NormalizeAngles(sample.joint_angles),
     vertex_deltas |-> sample.vertex_deltas]

\* C28 (as claimed): after init_collector, whenever the last handler has
\* returned without an exception, the count the window shows is the number
\* of samples captured since the last clear, by 'Capture Current Pose',
\* 'Capture with Corrective' and 'Auto-Capture Range' together; and after
\* 'Save Dataset' the file holds every one of these samples and no other.
C28_SessionCount ==
    (ui.initialized /\ ~ui.raised) =>
        /\ ui.label = Len(ui.captured)
        /\ (ui.last = "save_dataset" /\ ui.captured # <<>>) =>
              /\ files.dataset.exists
              /\ Len(files.dataset.joint_angles) = Len(ui.captured)
              /\ \A i \in 1..Len(ui.captured) :
                    \E j \in 1..Len(files.dataset.joint_angles) :
                        /\ files.dataset.joint_angles[j] =
                              SavedRow(ui.captured[i]).joint_angles
                        /\ files.dataset.vertex_deltas[j] =
                              SavedRow(ui.captured[i]).vertex_deltas

-----------------------------------------------------------------------------
(* Claims about the correction lookup of the gate *)

\* C29 (as claimed): after an evaluation with enableML true and no fault,
\* whatever subset of the mesh the iterator visits, the k-th vertex visited
\* has been displaced exactly once, and by the k-th correction of the list,
\* the one _compute_simple_correction computed from that vertex's position.
C29_OwnCorrection ==
    \A d \in Deformers :
        (gate[d].pc = "returned" /\ gate[d].enable_ml /\ ~gate[d].faulted) =>
            \A k \in 1..Len(gate[d].members) :
                LET v == gate[d].members[k] IN
                /\ Count(gate[d].written, v) = 1
                /\ k <= Len(gate[d].corrections)
                /\ gate[d].pos[v] =
                      ApplyWeighted(gate[d].pre[v], gate[d].corrections[k],
                                    gate[d].correction_weight)

-----------------------------------------------------------------------------
(* Claims about the training run *)

\* C30 (as claimed): a run of train_corrective_deformer on a dataset with
\* at least one sample, a supported model_type and a split fraction in
\* [0, 1) never aborts because of the kind of its model or because a
\* subset of the split is empty: it raises neither in the criterion, nor in
\* the division by the number of batches, nor in the export.
C30_RunCompletes ==
    (/\ pipeline.pc = "training"
     /\ pipeline.model_type \in ModelKinds
     /\ pipeline.dataset.num_samples >= 1
     /\ pipeline.val_split \in 0..99) =>
        ~(/\ trainer.pc = "raised"
          /\ \/ pipeline.raised # "none"
             \/ trainer.raised_in = "export")

=============================================================================
